---- MODULE Spec2Model ----
(***************************************************************************)
(* replication-manager (repmgr.go): the run of main() as a state machine.  *)
(* Flag validation, host classification, siblinghood check, master         *)
(* autodetection, preferred-master check, mode dispatch, and the termbox   *)
(* monitoring loop with its failover restart.                              *)
(*                                                                         *)
(* ServerMonitor objects live on a heap (nodes); servers, slaves and       *)
(* master hold references (heap indices, 0 = nil), as the Go pointers do.  *)
(* URLs, host names, IPs and server ids are small integers; 0 stands for   *)
(* the empty string / the zero value.                                      *)
(***************************************************************************)
EXTENDS Integers, Sequences, FiniteSets, TLC

\* ---------------------------------------------------------------- bounds
MaxHosts == 3
MaxPromotions == 1

\* ------------------------------------------------------------- constants
STATE_FAILED == "Failed"
STATE_MASTER == "Master"
STATE_SLAVE == "Slave"
STATE_UNCONN == "Unconnected"

switchOptions == {"keep", "kill"}
failOptions == {"monitor", "force", "check"}

\* ---------------------------------------------------------------- inputs
\* Values the -switchover / -failover flags are drawn from ("" = not given).
SwitchoverValues == {"", "keep", "kill", "bogus"}
FailoverValues == {"", "monitor", "force", "check", "bogus"}
\* -prefmaster: empty, the first host of the list, a host never in the list.
PrefMasterValues == {0, 1, MaxHosts + 1}
\* Server ids a reachable server may report.
ServerIds == {1, 2}

\* The -hosts flag: the empty string, or the comma-separated list 1,...,n.
HostsValues == {[i \in 1..n |-> i] : n \in 0..MaxHosts}

Flags ==
    [hosts : HostsValues, user : {0, 1}, rpluser : {0, 1},
     switchover : SwitchoverValues, failover : FailoverValues,
     interactive : BOOLEAN, prefMaster : PrefMasterValues]

VARIABLES
    pc,        \* position in main()
    diag,      \* the log.Fatal / panic diagnostic that ended the run ("" if none)
    flags,     \* the parsed command line
    hostList,  \* []string
    nodes,     \* heap of ServerMonitor objects
    servers,   \* []*ServerMonitor
    slaves,    \* []*ServerMonitor
    master,    \* *ServerMonitor
    k,         \* index of the classification loop
    exit,      \* bool
    command,   \* string, local to MainLoop
    producers, \* number of goroutines started by new_tb_chan
    blocked,   \* the goroutines blocked in "termboxChan <- event"
    calls,     \* number of failover() / switchover() invocations so far
    conns,     \* what each host answered at classification (history)
    last       \* the promotion call or quit the last step handled, if any (history)

vars == <<pc, diag, flags, hostList, nodes, servers, slaves, master, k, exit,
          command, producers, blocked, calls, conns, last>>

\* ----------------------------------------------------------- ServerMonitor
\* Host part and resolved IP of a URL; URLs 1 and 2 resolve to the same IP.
Host(url) == url
IP(url) == 100 + ((url + 1) \div 2)

\* MasterHost values a slave may report: a host name, or an IP.
MasterHostValues == {Host(1), IP(1)}

\* newServerMonitor(url): a fresh monitor, not yet classified.
newServerMonitor(url) ==
    [url |-> url, host |-> Host(url), ip |-> IP(url), state |-> STATE_UNCONN,
     serverId |-> 0, masterServerId |-> 0, masterHost |-> 0, usingGtid |-> ""]

\* What a reachable server may report on refresh(): a server that does not
\* replicate, or a slave with its upstream. A slave's own server id is read
\* by nothing after classification; slaves report id 2, so that a slave can
\* carry the very id the locator looks for.
Facts ==
    [serverId : ServerIds, masterServerId : {0}, masterHost : {0}, usingGtid : {""}]
    \cup
    [serverId : {2}, masterServerId : ServerIds,
     masterHost : MasterHostValues, usingGtid : {"Slave_Pos"}]

\* sm.refresh(): the monitor's replication facts are read from the server.
refresh(sm, f) ==
    [sm EXCEPT !.serverId = f.serverId, !.masterServerId = f.masterServerId,
               !.masterHost = f.masterHost, !.usingGtid = f.usingGtid]

\* sl.hasSiblings(sib): every monitor of sib has the same upstream as sl.
hasSiblings(sl, sib, heap) ==
    \A i \in 1..Len(sib) : heap[sib[i]].masterServerId = heap[sl].masterServerId

Fatal(msg) == pc' = "fatal" /\ diag' = msg

NoOp == [op |-> "none", url |-> 0, key |-> -1, pre |-> <<>>, auto |-> FALSE,
         on |-> 0]

Init ==
    /\ pc = "start"
    /\ diag = ""
    /\ flags \in Flags
    /\ hostList = <<>>
    /\ nodes = <<>>
    /\ servers = <<>>
    /\ slaves = <<>>
    /\ master = 0
    /\ k = 0
    /\ exit = FALSE
    /\ command = ""
    /\ producers = 0
    /\ blocked = {}
    /\ calls = [failover |-> 0, switchover |-> 0]
    /\ conns = <<>>
    /\ last = NoOp

\* ------------------------------------------------------- flag validation
\* The log.Fatal message of the flag checks, "" when the flags pass.
FlagError(f) ==
    IF f.hosts = <<>> THEN "No hosts list specified."
    ELSE IF f.user = 0 THEN "No master user/pair specified."
    ELSE IF f.rpluser = 0 THEN "No replication user/pair specified."
    ELSE IF f.switchover = "" /\ f.failover = ""
        THEN "None of the switchover or failover modes are set."
    ELSE IF f.switchover # "" /\ f.failover # ""
        THEN "Both switchover and failover modes are set."
    ELSE IF f.failover \notin failOptions /\ f.failover # ""
        THEN "Incorrect failover mode"
    ELSE IF f.switchover \notin switchOptions /\ f.switchover # ""
        THEN "Incorrect switchover mode"
    ELSE ""

ParseFlags ==
    /\ pc = "start"
    /\ IF FlagError(flags) # ""
       THEN /\ Fatal(FlagError(flags))
            /\ UNCHANGED <<hostList, servers, k>>
       ELSE /\ hostList' = flags.hosts
            /\ servers' = [i \in 1..Len(flags.hosts) |-> 0]
            /\ k' = 1
            /\ pc' = "classify"
            /\ diag' = ""
    /\ last' = NoOp
    /\ UNCHANGED <<flags, nodes, slaves, master, exit, command, producers, calls,
                   conns>>
    /\ UNCHANGED blocked

\* --------------------------------------------------------- classification
\* What a connection attempt to one host may yield: an error, or a live
\* server with its replication facts.
Connections ==
    {[ok |-> FALSE, facts |-> [serverId |-> 0, masterServerId |-> 0,
                               masterHost |-> 0, usingGtid |-> ""]]}
    \cup {[ok |-> TRUE, facts |-> f] : f \in Facts}

\* Variant: a failed connection is logged but the monitor is not marked.
ClassifiedMonitor_NoFailedMark(url, conn) ==
    IF ~conn.ok
    THEN newServerMonitor(url)
    ELSE LET r == refresh(newServerMonitor(url), conn.facts)
         IN  IF r.usingGtid # "" THEN [r EXCEPT !.state = STATE_SLAVE] ELSE r

\* The monitor of one host as the body of the classification loop leaves it.
ClassifiedMonitor(url, conn) ==
    IF ~conn.ok
    THEN [newServerMonitor(url) EXCEPT !.state = STATE_FAILED]
    ELSE LET r == refresh(newServerMonitor(url), conn.facts)
         IN  IF r.usingGtid # "" THEN [r EXCEPT !.state = STATE_SLAVE] ELSE r

\* Whether the loop body appends the monitor to slaves.
AppendedToSlaves(url, conn) ==
    conn.ok /\ refresh(newServerMonitor(url), conn.facts).usingGtid # ""

\* One iteration of "for k, url := range hostList".
ClassifyHost ==
    /\ pc = "classify"
    /\ k <= Len(hostList)
    /\ \E conn \in Connections :
         LET id == Len(nodes) + 1
         IN  /\ nodes' = Append(nodes, ClassifiedMonitor(hostList[k], conn))
             /\ servers' = [servers EXCEPT ![k] = id]
             /\ slaves' = IF AppendedToSlaves(hostList[k], conn)
                           THEN Append(slaves, id) ELSE slaves
             /\ conns' = Append(conns, conn)
    /\ k' = k + 1
    /\ pc' = IF k = Len(hostList) THEN "siblings" ELSE "classify"
    /\ last' = NoOp
    /\ UNCHANGED <<diag, flags, hostList, master, exit, command, producers, calls>>
    /\ UNCHANGED blocked

\* "Check that all slave servers have the same master."
SiblingsOk(sl, heap) ==
    \A i \in 1..Len(sl) : hasSiblings(sl[i], sl, heap)

\* Variant: the disagreement is logged without ending the run.
CheckSiblings_LogOnly ==
    /\ pc = "siblings"
    /\ pc' = "locate"
    /\ last' = NoOp
    /\ UNCHANGED <<diag, flags, hostList, nodes, servers, slaves, master, k, exit,
                   command, producers, calls, conns>>
    /\ UNCHANGED blocked

CheckSiblings ==
    /\ pc = "siblings"
    /\ IF SiblingsOk(slaves, nodes)
       THEN pc' = "locate" /\ diag' = ""
       ELSE Fatal("Multi-master topologies are not yet supported.")
    /\ last' = NoOp
    /\ UNCHANGED <<flags, hostList, nodes, servers, slaves, master, k, exit,
                   command, producers, calls, conns>>
    /\ UNCHANGED blocked

\* ------------------------------------------------------ master autodetection
Min(S) == CHOOSE x \in S : \A y \in S : x <= y

\* Which discovery loop main() runs.
SwitchoverPath(f) == f.switchover # "" \/ f.failover = "monitor"

\* Variant: the loops compare identities without testing the state.
Candidates_AnyState(f, heap, srv, sl) ==
    IF SwitchoverPath(f)
    THEN LET sid == heap[sl[1]].masterServerId
         IN  {i \in 1..Len(srv) : heap[srv[i]].serverId = sid}
    ELSE LET smh == heap[sl[1]].masterHost
         IN  {i \in 1..Len(srv) : \/ heap[srv[i]].host = smh
                                  \/ heap[srv[i]].ip = smh}

\* Indices of servers the "if" of the selected loop accepts.
Candidates(f, heap, srv, sl) ==
    IF SwitchoverPath(f)
    THEN LET sid == heap[sl[1]].masterServerId
         IN  {i \in 1..Len(srv) : /\ heap[srv[i]].state = STATE_UNCONN
                                  /\ heap[srv[i]].serverId = sid}
    ELSE LET smh == heap[sl[1]].masterHost
         IN  {i \in 1..Len(srv) : /\ heap[srv[i]].state = STATE_FAILED
                                  /\ \/ heap[srv[i]].host = smh
                                     \/ heap[srv[i]].ip = smh}

Max(S) == CHOOSE x \in S : \A y \in S : x >= y

\* Variant: the loops lack the break, so the last match wins.
autodetect_LastMatch(f, heap, srv, sl) ==
    IF Candidates(f, heap, srv, sl) = {} THEN 0
    ELSE Max(Candidates(f, heap, srv, sl))

\* Index of the server the loop stops at (break on first match), 0 if none.
autodetect(f, heap, srv, sl) ==
    IF Candidates(f, heap, srv, sl) = {} THEN 0
    ELSE Min(Candidates(f, heap, srv, sl))

LocateMaster ==
    /\ pc = "locate"
    /\ IF slaves = <<>>
       THEN \* slaves[0] on an empty slice: runtime panic
            /\ pc' = "panic"
            /\ diag' = "index out of range"
            /\ UNCHANGED <<nodes, master>>
       ELSE LET m == autodetect(flags, nodes, servers, slaves)
            IN  IF m = 0
                THEN /\ Fatal("Could not autodetect a master!")
                     /\ UNCHANGED <<nodes, master>>
                ELSE /\ master' = servers[m]
                     /\ nodes' = [nodes EXCEPT ![servers[m]].state = STATE_MASTER]
                     /\ pc' = "prefcheck"
                     /\ diag' = ""
    /\ last' = NoOp
    /\ UNCHANGED <<flags, hostList, servers, slaves, k, exit, command, producers,
                   calls, conns>>
    /\ UNCHANGED blocked

\* ------------------------------------------------- preferred master check
\* The closure ret(): the preferred master equals an entry of hostList.
ret(hl, pref) == \E i \in 1..Len(hl) : hl[i] = pref

\* Variant: the test for a non-empty preferred master is missing.
PrefMasterMissing_EmptyToo(hl, pref) == ret(hl, pref) = FALSE

PrefMasterMissing(hl, pref) == ret(hl, pref) = FALSE /\ pref # 0

\* The IsSlaveof warnings (log only), then the preferred-master check.
CheckPrefMaster ==
    /\ pc = "prefcheck"
    /\ IF PrefMasterMissing(hostList, flags.prefMaster)
       THEN Fatal("Preferred master is not included in the hosts option")
       ELSE pc' = "dispatch" /\ diag' = ""
    /\ last' = NoOp
    /\ UNCHANGED <<flags, hostList, nodes, servers, slaves, master, k, exit,
                   command, producers, calls, conns>>
    /\ UNCHANGED blocked

\* ------------------------------------------------------------- promotion
\* master.failover() / master.switchover(): no result, or the URL of the
\* promoted slave and its index in slaves (0-based, as in the Go code), or
\* that URL with the index -1 (the result the KeyCtrlS handler tests for).
Promotion(heap, sl) ==
    {[url |-> 0, key |-> -1]}
    \cup {[url |-> heap[sl[i]].url, key |-> i - 1] : i \in 1..Len(sl)}
    \cup {[url |-> heap[sl[i]].url, key |-> -1] : i \in 1..Len(sl)}

failover(heap, sl) == Promotion(heap, sl)
switchover(heap, sl) == Promotion(heap, sl)

\* Both calls block the control loop; their number is capped for checking.
MayPromote == calls.failover + calls.switchover < MaxPromotions

\* append(s[:key], s[key+1:]...)
RemoveAt(s, key) == SubSeq(s, 1, key) \o SubSeq(s, key + 2, Len(s))

\* ----------------------------------------------------------- mode dispatch
DirectFailover ==
    /\ pc = "dispatch"
    /\ flags.failover = "force"
    /\ calls' = [calls EXCEPT !.failover = @ + 1]
    /\ pc' = "done"
    /\ last' = [NoOp EXCEPT !.op = "direct-failover", !.on = master]
    /\ UNCHANGED <<diag, flags, hostList, nodes, servers, slaves, master, k, exit,
                   command, producers, conns>>
    /\ UNCHANGED blocked

\* Variant: the switchover branch does not test the interactive flag.
DirectSwitchover_Always ==
    /\ pc = "dispatch"
    /\ flags.failover # "force"
    /\ flags.switchover # ""
    /\ calls' = [calls EXCEPT !.switchover = @ + 1]
    /\ pc' = "done"
    /\ last' = [NoOp EXCEPT !.op = "direct-switchover", !.on = master]
    /\ UNCHANGED <<diag, flags, hostList, nodes, servers, slaves, master, k, exit,
                   command, producers, conns>>
    /\ UNCHANGED blocked

DirectSwitchover ==
    /\ pc = "dispatch"
    /\ flags.failover # "force"
    /\ flags.switchover # "" /\ flags.interactive = FALSE
    /\ calls' = [calls EXCEPT !.switchover = @ + 1]
    /\ pc' = "done"
    /\ last' = [NoOp EXCEPT !.op = "direct-switchover", !.on = master]
    /\ UNCHANGED <<diag, flags, hostList, nodes, servers, slaves, master, k, exit,
                   command, producers, conns>>
    /\ UNCHANGED blocked

\* Variant: the monitor branch does not exclude the force sub-mode.
AtMainLoop_ForceToo ==
    \/ pc = "MainLoop"
    \/ /\ pc = "dispatch"
       /\ ~(flags.switchover # "" /\ flags.interactive = FALSE)

\* The else branch of the dispatch, and the target of "goto MainLoop".
AtMainLoop ==
    \/ pc = "MainLoop"
    \/ /\ pc = "dispatch"
       /\ flags.failover # "force"
       /\ ~(flags.switchover # "" /\ flags.interactive = FALSE)

\* Variant: command is declared before the label, so a restart keeps it.
MainLoop_KeepsCommand ==
    /\ AtMainLoop
    /\ \E initOk \in BOOLEAN :
         IF initOk
         THEN /\ producers' = producers + 1
              /\ pc' = "loop"
              /\ diag' = ""
         ELSE /\ Fatal("Termbox initialization error")
              /\ UNCHANGED producers
    /\ last' = NoOp
    /\ UNCHANGED <<flags, hostList, nodes, servers, slaves, master, k, exit, calls,
                   conns, command>>
    /\ UNCHANGED blocked

\* termbox.Init(), the log line, new_tb_chan(), the ticker, "var command".
MainLoop ==
    /\ AtMainLoop
    /\ \E initOk \in BOOLEAN :
         IF initOk
         THEN /\ producers' = producers + 1
              /\ command' = ""
              /\ pc' = "loop"
              /\ diag' = ""
         ELSE /\ Fatal("Termbox initialization error")
              /\ UNCHANGED <<producers, command>>
    /\ last' = NoOp
    /\ UNCHANGED <<flags, hostList, nodes, servers, slaves, master, k, exit, calls,
                   conns>>
    /\ UNCHANGED blocked

\* ---------------------------------------------------------- monitoring loop
\* display(): the topology is rendered from the monitors' current state; a
\* master found dead is shown, and left, in state Failed.
display(heap, m) ==
    {heap} \cup (IF heap[m].state # STATE_FAILED
                 THEN {[heap EXCEPT ![m].state = STATE_FAILED]} ELSE {})

\* Variant: any master not in state Master counts as failed.
FailureDetected_NotMaster(heap, m, f) ==
    heap[m].state # STATE_MASTER /\ f.interactive = FALSE

\* The test that closes every iteration of "for exit == false".
FailureDetected(heap, m, f) ==
    heap[m].state = STATE_FAILED /\ f.interactive = FALSE

\* Variant: the failure check sets the exit flag only.
CommandAfter_Forgets(cmd, heap, m) == cmd

CommandAfter(cmd, heap, m) ==
    IF FailureDetected(heap, m, flags) THEN "failover" ELSE cmd

ExitAfter(ex, heap, m) ==
    IF FailureDetected(heap, m, flags) THEN TRUE ELSE ex

InLoop == pc = "loop" /\ exit = FALSE

\* case <-ticker.C
Tick ==
    /\ InLoop
    /\ \E h \in display(nodes, master) :
         /\ nodes' = h
         /\ command' = CommandAfter(command, h, master)
         /\ exit' = ExitAfter(exit, h, master)
    /\ last' = NoOp
    /\ UNCHANGED <<pc, diag, flags, hostList, servers, slaves, master, k,
                   producers, calls, conns>>
    /\ UNCHANGED blocked

\* event.Key == termbox.KeyCtrlS
KeyCtrlS ==
    /\ InLoop
    /\ MayPromote
    /\ \E r \in switchover(nodes, slaves) :
         /\ IF r.url # 0 /\ r.key >= 0
            THEN /\ nodes' = nodes \o <<newServerMonitor(r.url),
                                        newServerMonitor(nodes[slaves[r.key + 1]].url)>>
                 /\ master' = Len(nodes) + 1
                 /\ slaves' = [slaves EXCEPT ![r.key + 1] = Len(nodes) + 2]
            ELSE UNCHANGED <<nodes, master, slaves>>
         /\ last' = [op |-> "switchover", url |-> r.url, key |-> r.key,
                     pre |-> slaves, auto |-> FALSE, on |-> master]
    /\ command' = CommandAfter(command, nodes', master')
    /\ exit' = ExitAfter(exit, nodes', master')
    /\ calls' = [calls EXCEPT !.switchover = @ + 1]
    /\ UNCHANGED <<pc, diag, flags, hostList, servers, k, producers, conns>>
    /\ UNCHANGED blocked

\* event.Key == termbox.KeyCtrlF
KeyCtrlF ==
    /\ InLoop
    /\ command' = CommandAfter("failover", nodes, master)
    /\ exit' = ExitAfter(TRUE, nodes, master)
    /\ last' = NoOp
    /\ UNCHANGED <<pc, diag, flags, hostList, nodes, servers, slaves, master, k,
                   producers, calls, conns>>
    /\ UNCHANGED blocked

\* event.Key == termbox.KeyCtrlQ
KeyCtrlQ ==
    /\ InLoop
    /\ command' = CommandAfter(command, nodes, master)
    /\ exit' = ExitAfter(TRUE, nodes, master)
    /\ last' = [NoOp EXCEPT !.op = "ctrl-q"]
    /\ UNCHANGED <<pc, diag, flags, hostList, nodes, servers, slaves, master, k,
                   producers, calls, conns>>
    /\ UNCHANGED blocked

\* Any other event ('s' resyncs the terminal; other keys do nothing).
OtherEvent ==
    /\ InLoop
    /\ command' = CommandAfter(command, nodes, master)
    /\ exit' = ExitAfter(exit, nodes, master)
    /\ last' = NoOp
    /\ UNCHANGED <<pc, diag, flags, hostList, nodes, servers, slaves, master, k,
                   producers, calls, conns>>
    /\ UNCHANGED blocked

\* ----------------------------------------------------------- event producer
\* The loop is blocked in select on the channel of the newest goroutine.
Receiving == InLoop

\* new_tb_chan's goroutine p returns from termbox.PollEvent() with an event
\* and blocks sending it: the channel is unbuffered and nobody receives from
\* it (the loop is busy, or left this channel behind at a restart). An event
\* the newest goroutine polls while the loop is in select is received at
\* once: that is the handler actions above.
PollEvent ==
    /\ pc \in {"loop", "MainLoop"}
    /\ \E p \in (1..producers) \ blocked :
         /\ p < producers \/ ~Receiving
         /\ blocked' = blocked \cup {p}
    /\ UNCHANGED <<pc, diag, flags, hostList, nodes, servers, slaves, master, k,
                   exit, command, producers, calls, conns, last>>

\* ------------------------------------------------------------ leaving the loop
\* case "failover": the promotion, the reinstancing, the sleep, the restart.
\* Variant: the exit flag is not cleared before the jump.
ExitFailover_KeepsExit ==
    /\ pc = "loop" /\ exit = TRUE
    /\ command = "failover"
    /\ MayPromote
    /\ \E r \in failover(nodes, slaves) :
         /\ IF r.url # 0
            THEN /\ nodes' = Append(nodes, newServerMonitor(r.url))
                 /\ master' = Len(nodes) + 1
                 /\ IF r.key \in 0..(Len(slaves) - 1)
                    THEN /\ slaves' = RemoveAt(slaves, r.key)
                         /\ exit' = exit
                         /\ pc' = "MainLoop"
                         /\ diag' = ""
                    ELSE \* slaves[:nmKey]: runtime panic
                         /\ pc' = "panic"
                         /\ diag' = "slice bounds out of range"
                         /\ UNCHANGED <<slaves, exit>>
            ELSE /\ exit' = exit
                 /\ pc' = "MainLoop"
                 /\ diag' = ""
                 /\ UNCHANGED <<nodes, master, slaves>>
         /\ last' = [op |-> "failover", url |-> r.url, key |-> r.key,
                     pre |-> slaves,
                     auto |-> FailureDetected(nodes, master, flags),
                     on |-> master]
    /\ calls' = [calls EXCEPT !.failover = @ + 1]
    /\ UNCHANGED <<flags, hostList, servers, k, command, producers, conns>>
    /\ UNCHANGED blocked

\* Variant: a failover() without result ends the run instead of restarting.
ExitFailover_GivesUp ==
    /\ pc = "loop" /\ exit = TRUE
    /\ command = "failover"
    /\ MayPromote
    /\ \E r \in failover(nodes, slaves) :
         /\ IF r.url # 0
            THEN /\ nodes' = Append(nodes, newServerMonitor(r.url))
                 /\ master' = Len(nodes) + 1
                 /\ IF r.key \in 0..(Len(slaves) - 1)
                    THEN /\ slaves' = RemoveAt(slaves, r.key)
                         /\ exit' = FALSE
                         /\ pc' = "MainLoop"
                         /\ diag' = ""
                    ELSE \* slaves[:nmKey]: runtime panic
                         /\ pc' = "panic"
                         /\ diag' = "slice bounds out of range"
                         /\ UNCHANGED <<slaves, exit>>
            ELSE /\ pc' = "done"
                 /\ diag' = ""
                 /\ UNCHANGED <<nodes, master, slaves, exit>>
         /\ last' = [op |-> "failover", url |-> r.url, key |-> r.key,
                     pre |-> slaves,
                     auto |-> FailureDetected(nodes, master, flags),
                     on |-> master]
    /\ calls' = [calls EXCEPT !.failover = @ + 1]
    /\ UNCHANGED <<flags, hostList, servers, k, command, producers, conns>>
    /\ UNCHANGED blocked

ExitFailover ==
    /\ pc = "loop" /\ exit = TRUE
    /\ command = "failover"
    /\ MayPromote
    /\ \E r \in failover(nodes, slaves) :
         /\ IF r.url # 0
            THEN /\ nodes' = Append(nodes, newServerMonitor(r.url))
                 /\ master' = Len(nodes) + 1
                 /\ IF r.key \in 0..(Len(slaves) - 1)
                    THEN /\ slaves' = RemoveAt(slaves, r.key)
                         /\ exit' = FALSE
                         /\ pc' = "MainLoop"
                         /\ diag' = ""
                    ELSE \* slaves[:nmKey]: runtime panic
                         /\ pc' = "panic"
                         /\ diag' = "slice bounds out of range"
                         /\ UNCHANGED <<slaves, exit>>
            ELSE /\ exit' = FALSE
                 /\ pc' = "MainLoop"
                 /\ diag' = ""
                 /\ UNCHANGED <<nodes, master, slaves>>
         /\ last' = [op |-> "failover", url |-> r.url, key |-> r.key,
                     pre |-> slaves,
                     auto |-> FailureDetected(nodes, master, flags),
                     on |-> master]
    /\ calls' = [calls EXCEPT !.failover = @ + 1]
    /\ UNCHANGED <<flags, hostList, servers, k, command, producers, conns>>
    /\ UNCHANGED blocked

\* No pending command: termbox.Close() and main returns.
ExitQuit ==
    /\ pc = "loop" /\ exit = TRUE
    /\ command # "failover"
    /\ pc' = "done"
    /\ last' = NoOp
    /\ UNCHANGED <<diag, flags, hostList, nodes, servers, slaves, master, k, exit,
                   command, producers, calls, conns>>
    /\ UNCHANGED blocked

Next ==
    \/ ParseFlags
    \/ ClassifyHost
    \/ CheckSiblings
    \/ LocateMaster
    \/ CheckPrefMaster
    \/ DirectFailover
    \/ DirectSwitchover
    \/ MainLoop
    \/ Tick
    \/ KeyCtrlS
    \/ KeyCtrlF
    \/ KeyCtrlQ
    \/ OtherEvent
    \/ ExitFailover
    \/ ExitQuit

\* The control thread alone: main() from its first line to its end.
Spec == Init /\ [][Next]_vars

\* The control thread together with the goroutines of new_tb_chan.
NextIO ==
    \/ Next
    \/ PollEvent

SpecIO == Init /\ [][NextIO]_vars

\* ================================================================ properties
Range(q) == {q[i] : i \in 1..Len(q)}

MsgMultiMaster == "Multi-master topologies are not yet supported."
MsgNoMaster == "Could not autodetect a master!"
MsgPrefMaster == "Preferred master is not included in the hosts option"

\* What the classification answers say, independently of the monitors.
WasFailed(i) == ~conns[i].ok
WasSlave(i) == conns[i].ok /\ conns[i].facts.usingGtid # ""
WasUnconn(i) == conns[i].ok /\ conns[i].facts.usingGtid = ""
ClassificationDone == hostList # <<>> /\ Len(conns) = Len(hostList)
SlaveIdx == {i \in 1..Len(conns) : WasSlave(i)}
SlavesDisagree ==
    \E i, j \in SlaveIdx :
        conns[i].facts.masterServerId # conns[j].facts.masterServerId

\* The nodes the topology references.
Topology == (Range(servers) \cup Range(slaves) \cup {master}) \ {0}

\* ------------------------------------------------------------------- C1
\* C1 (as claimed): after a failover exit caused by failure detection whose
\* failover() returned a new master URL and a slave index, the monitor is about to restart with the
\* master reference on a node of that URL in state Master, the promoted
\* slave removed from slaves with the others in order, and the run alive.
C1_RestartWithPromotedMaster ==
    (last.op = "failover" /\ last.auto /\ last.url # 0 /\ last.key >= 0) =>
        /\ pc = "MainLoop"
        /\ master # 0
        /\ nodes[master].url = last.url
        /\ nodes[master].state = STATE_MASTER
        /\ slaves = RemoveAt(last.pre, last.key)
        /\ \A i \in 1..Len(slaves) : nodes[slaves[i]].url # last.url

\* ------------------------------------------------------------------- C2
SteadyState == pc = "dispatch" \/ (pc = "loop" /\ exit = FALSE)

\* C2 (as claimed): in every steady state exactly one node of the topology
\* is in state Master and the master reference designates it. The claim is
\* read in its favour: a steady state whose master the monitor has found
\* dead (state Failed) is not held against it.
C2_SingleMaster ==
    (SteadyState /\ master # 0 /\ nodes[master].state # STATE_FAILED) =>
        /\ master # 0
        /\ nodes[master].state = STATE_MASTER
        /\ Cardinality({id \in Topology : nodes[id].state = STATE_MASTER}) = 1

\* ------------------------------------------------------------------- C3
\* C3 (as claimed): whenever a Quit event has been processed the loop is
\* left with the exit flag set and no pending command.
C3_QuitLeavesNoCommand ==
    last.op = "ctrl-q" => (exit = TRUE /\ command = "")

\* C3 (amended): whenever a Quit event has been processed and it is not the
\* case that the run is non-interactive with the master in state Failed, the
\* loop is left with the exit flag set and no pending command, and the next
\* step is the return of main without any failover() or switchover() call.
C3_QuitTerminates ==
    /\ [](last.op = "ctrl-q" /\ ~FailureDetected(nodes, master, flags)
            => pc = "loop" /\ exit = TRUE /\ command = "")
    /\ [][last.op = "ctrl-q" /\ ~FailureDetected(nodes, master, flags)
            => pc' = "done" /\ calls' = calls]_vars

\* Quit processed after an earlier failover restart, no failure pending.
C3_Witness ==
    /\ last.op = "ctrl-q"
    /\ ~FailureDetected(nodes, master, flags)
    /\ calls.failover >= 1
    /\ exit = TRUE

\* ------------------------------------------------------------------- C4
\* C4: a handled manual switchover whose switchover() call returned a new
\* master and a slave index leaves the exit flag clear and the run in the
\* monitoring loop, whether interactive or not.
C4_SwitchoverKeepsLooping ==
    (last.op = "switchover" /\ last.url # 0 /\ last.key >= 0) =>
        /\ pc = "loop"
        /\ exit = FALSE
        /\ diag = ""

\* A successful switchover handled in a non-interactive run.
C4_Witness ==
    /\ last.op = "switchover" /\ last.url # 0 /\ last.key >= 0
    /\ flags.interactive = FALSE
    /\ nodes[master].url = last.url
    /\ pc = "loop" /\ exit = FALSE

\* ------------------------------------------------------------------- C5
\* C5: once two slaves have reported different upstream server ids, the run
\* is still classifying or about to check siblinghood, or it has ended in
\* the multi-master fatal error; no master is located, no promotion call is
\* made and the monitor is never started.
C5_MultiMasterIsFatal ==
    SlavesDisagree =>
        /\ \/ pc \in {"classify", "siblings"}
           \/ pc = "fatal" /\ diag = MsgMultiMaster
        /\ master = 0
        /\ calls.failover = 0 /\ calls.switchover = 0
        /\ producers = 0

C5_Witness ==
    SlavesDisagree /\ pc = "fatal" /\ diag = MsgMultiMaster

\* ------------------------------------------------------------------- C6
\* No node matches the selected strategy, judged on the classification
\* answers; an empty slave subset gives the strategy nothing to match.
NoMatch ==
    \/ SlaveIdx = {}
    \/ LET s == Min(SlaveIdx)
       IN  IF SwitchoverPath(flags)
           THEN ~\E i \in 1..Len(conns) :
                    /\ WasUnconn(i)
                    /\ conns[i].facts.serverId = conns[s].facts.masterServerId
           ELSE ~\E i \in 1..Len(conns) :
                    /\ WasFailed(i)
                    /\ \/ Host(hostList[i]) = conns[s].facts.masterHost
                       \/ IP(hostList[i]) = conns[s].facts.masterHost

\* C6 (as claimed): when the siblinghood check passes and the strategy
\* matches no node (an empty slave subset included), the run ends with the
\* "could not autodetect a master" diagnostic, with no promotion call and
\* no monitor.
C6_NoMasterIsFatal ==
    (/\ ClassificationDone
     /\ pc \notin {"classify", "siblings", "locate"}
     /\ ~SlavesDisagree
     /\ NoMatch) =>
        /\ pc = "fatal" /\ diag = MsgNoMaster
        /\ calls.failover = 0 /\ calls.switchover = 0
        /\ producers = 0

\* ------------------------------------------------------------------- C7
\* C7: right after master location on the switchover / monitor-failover
\* path, the master is the first server in host-list order that was
\* classified Unconnected and reports the server id the first slave names as
\* its master; it is now in state Master and every other server is as
\* classification left it.
C7_SwitchoverPathFirstMatch ==
    (pc = "prefcheck" /\ SwitchoverPath(flags)) =>
        \E m \in 1..Len(servers) :
            /\ master = servers[m]
            /\ nodes[master].state = STATE_MASTER
            /\ WasUnconn(m)
            /\ conns[m].facts.serverId = conns[Min(SlaveIdx)].facts.masterServerId
            /\ \A j \in 1..(m - 1) :
                 ~(/\ WasUnconn(j)
                   /\ conns[j].facts.serverId
                        = conns[Min(SlaveIdx)].facts.masterServerId)
            /\ \A j \in 1..Len(servers) :
                 j # m => nodes[servers[j]] = ClassifiedMonitor(hostList[j], conns[j])

\* Two Unconnected servers report the expected id; the earlier one is master,
\* and a slave carries that id too.
C7_Witness ==
    /\ pc = "prefcheck" /\ SwitchoverPath(flags)
    /\ \E m, j \in 1..Len(servers) :
         /\ m < j
         /\ master = servers[m]
         /\ WasUnconn(j)
         /\ conns[j].facts.serverId = conns[m].facts.serverId
    /\ \E i \in SlaveIdx : conns[i].facts.serverId = nodes[master].serverId

\* ------------------------------------------------------------------- C8
\* C8: the forced-failover path is taken exactly by the runs in failover
\* sub-mode force or check; right after master location on it, the master is
\* the first server in host-list order that was classified Failed and whose
\* host or IP equals the MasterHost of the first slave.
C8_ForcedPathFirstMatch ==
    pc = "prefcheck" =>
        /\ ~SwitchoverPath(flags) <=> flags.failover \in {"force", "check"}
        /\ ~SwitchoverPath(flags) =>
             \E m \in 1..Len(servers) :
                 /\ master = servers[m]
                 /\ nodes[master].state = STATE_MASTER
                 /\ WasFailed(m)
                 /\ \/ Host(hostList[m]) = conns[Min(SlaveIdx)].facts.masterHost
                    \/ IP(hostList[m]) = conns[Min(SlaveIdx)].facts.masterHost
                 /\ \A j \in 1..(m - 1) :
                      ~(/\ WasFailed(j)
                        /\ \/ Host(hostList[j]) = conns[Min(SlaveIdx)].facts.masterHost
                           \/ IP(hostList[j]) = conns[Min(SlaveIdx)].facts.masterHost)

\* Two Failed servers share the IP the first slave names; the earlier one is
\* the master, in sub-mode check.
C8_Witness ==
    /\ pc = "prefcheck" /\ flags.failover = "check"
    /\ master = servers[1]
    /\ WasFailed(1) /\ WasFailed(2)
    /\ conns[Min(SlaveIdx)].facts.masterHost = IP(hostList[2])

\* ------------------------------------------------------------------- C9
\* C9: when the classification loop is over there is one monitor per host,
\* in host-list order, Failed iff its connection failed, Slave iff it
\* connected and reports replication, Unconnected otherwise; slaves holds
\* exactly the Slave monitors in host-list order; and while hosts remain the
\* run is still in the loop, whatever the earlier hosts answered.
C9_ClassificationComplete ==
    /\ (conns # <<>> /\ Len(conns) < Len(hostList)) =>
            (pc = "classify" /\ k = Len(conns) + 1)
    /\ pc = "siblings" =>
        /\ Len(servers) = Len(hostList)
        /\ Len(conns) = Len(hostList)
        /\ \A i \in 1..Len(hostList) :
             /\ servers[i] \in 1..Len(nodes)
             /\ nodes[servers[i]].url = hostList[i]
             /\ nodes[servers[i]].state \in {STATE_SLAVE, STATE_FAILED, STATE_UNCONN}
             /\ nodes[servers[i]].state = STATE_FAILED <=> WasFailed(i)
             /\ nodes[servers[i]].state = STATE_SLAVE <=> WasSlave(i)
             /\ nodes[servers[i]].state = STATE_UNCONN <=> WasUnconn(i)
        /\ \A i, j \in 1..Len(servers) : i # j => servers[i] # servers[j]
        /\ slaves = SelectSeq(servers, LAMBDA id : nodes[id].state = STATE_SLAVE)

\* A dead first host, then a slave, then a server that does not replicate.
C9_Witness ==
    /\ pc = "siblings"
    /\ Len(hostList) = 3
    /\ WasFailed(1) /\ WasSlave(2) /\ WasUnconn(3)
    /\ nodes[servers[3]].state = STATE_UNCONN

\* ------------------------------------------------------------------ C10
\* C10: the run ends in the preferred-master fatal error only with a
\* non-empty preferred master that equals no host-list entry, and a run that
\* got past the check has an empty preferred master or one in the host list.
C10_PrefMasterValidation ==
    /\ (pc = "fatal" /\ diag = MsgPrefMaster) =>
            /\ flags.prefMaster # 0
            /\ \A i \in 1..Len(hostList) : hostList[i] # flags.prefMaster
    /\ pc \in {"dispatch", "MainLoop", "loop", "done"} =>
            \/ flags.prefMaster = 0
            \/ \E i \in 1..Len(hostList) : hostList[i] = flags.prefMaster

C10_Witness ==
    /\ pc = "fatal" /\ diag = MsgPrefMaster
    /\ flags.prefMaster # 0
    /\ master # 0

\* ------------------------------------------------------------------ C11
ConfigErrorMsgs ==
    {"No hosts list specified.", "No master user/pair specified.",
     "No replication user/pair specified.",
     "None of the switchover or failover modes are set.",
     "Both switchover and failover modes are set.",
     "Incorrect failover mode", "Incorrect switchover mode", MsgPrefMaster}

\* C11 (as claimed): a run that ended in a configuration error has made no
\* connection attempt: no monitor exists, no host is classified, no master
\* is located.
C11_ConfigErrorBeforeConnect ==
    (pc = "fatal" /\ diag \in ConfigErrorMsgs) =>
        /\ conns = <<>>
        /\ nodes = <<>>
        /\ master = 0

\* ------------------------------------------------------------------ C12
\* C12 (as claimed): in a non-interactive run in sub-mode force, failover()
\* is invoked only out of the monitoring loop, which was entered and left
\* with the pending command set by failure detection.
C12_ForceThroughMonitoring ==
    (flags.failover = "force" /\ flags.interactive = FALSE /\ calls.failover > 0) =>
        /\ producers >= 1
        /\ last.op = "failover" /\ last.auto

\* C12 (amended): in sub-mode force, once the master is located and the
\* preferred master checked, the monitoring loop is never entered; the
\* master is a server classified Failed, now in state Master, and the run
\* ends with exactly one failover() call, made on it by the mode dispatch.
C12_ForceIsDirect ==
    (flags.failover = "force" /\ pc \in {"dispatch", "MainLoop", "loop", "done"}) =>
        /\ pc \in {"dispatch", "done"}
        /\ producers = 0
        /\ \E m \in 1..Len(servers) : master = servers[m] /\ WasFailed(m)
        /\ nodes[master].state = STATE_MASTER
        /\ pc = "dispatch" => calls = [failover |-> 0, switchover |-> 0]
        /\ pc = "done" =>
             /\ calls = [failover |-> 1, switchover |-> 0]
             /\ last.op = "direct-failover" /\ last.on = master

\* The scenario of the spec: h1 dead, h2 and h3 slaves of h1, sub-mode force,
\* non-interactive, failover() called.
C12_Witness ==
    /\ pc = "done"
    /\ flags.failover = "force" /\ flags.interactive = FALSE
    /\ Len(hostList) = 3
    /\ WasFailed(1) /\ WasSlave(2) /\ WasSlave(3)
    /\ conns[2].facts.masterHost = Host(hostList[1])
    /\ master = servers[1]
    /\ calls.failover = 1

\* ------------------------------------------------------------------ C13
\* C13 (as claimed): while the monitor runs there is exactly one producer
\* goroutine and at most one event taken from the input and not yet received
\* by the loop.
C13_OneProducer ==
    pc = "loop" => (producers = 1 /\ Cardinality(blocked) <= 1)

\* ------------------------------------------------------------------ C14
Iteration == Tick \/ KeyCtrlS \/ KeyCtrlF \/ KeyCtrlQ \/ OtherEvent

\* C14: every loop iteration of a non-interactive run that ends with the
\* master in state Failed ends with the pending command "failover" and the
\* exit flag set, and the step after it is the failover() call on that
\* master; in an interactive run only Ctrl-F sets the pending command and
\* only Ctrl-F or Ctrl-Q the exit flag, whatever the master's state.
C14_AutomaticFailureDetection ==
    /\ [][Iteration =>
            /\ (flags.interactive = FALSE /\ nodes'[master'].state = STATE_FAILED)
                  => (command' = "failover" /\ exit' = TRUE)
            /\ flags.interactive = TRUE
                  => /\ command' # command => KeyCtrlF
                     /\ exit' = TRUE => (KeyCtrlF \/ KeyCtrlQ)]_vars
    /\ [][(pc = "loop" /\ exit = TRUE /\ command = "failover") =>
            /\ calls'.failover = calls.failover + 1
            /\ last'.op = "failover" /\ last'.on = master]_vars

\* A tick of a non-interactive run has found the master Failed.
C14_Witness ==
    /\ pc = "loop" /\ exit = TRUE /\ command = "failover"
    /\ flags.interactive = FALSE
    /\ nodes[master].state = STATE_FAILED
    /\ calls.failover = 0

\* ------------------------------------------------------------------ C15
WellFormed(r) == r.url # 0 /\ r.key \in 0..(Len(r.pre) - 1)

\* C15 (as claimed): after a switchover() or failover() call whose result
\* lacks a new master URL or a valid slave index, the master reference and
\* the slave subset are as before the call and the run continues.
C15_NoMutationOnBadResult ==
    (last.op \in {"failover", "switchover"} /\ ~WellFormed(last)) =>
        /\ master = last.on
        /\ slaves = last.pre
        /\ pc \in {"loop", "MainLoop"}

\* ------------------------------------------------------------------ C16
\* C16 (as claimed): a run that ended without ever starting the monitor (a
\* direct failover or switchover) is non-interactive.
C16_DirectOnlyNonInteractive ==
    (pc = "done" /\ producers = 0) => flags.interactive = FALSE

\* C16 (amended): at the dispatch exactly one of the three branches can be
\* taken; the direct failover is taken exactly in sub-mode force (interactive
\* or not), the direct switchover exactly in a non-interactive switchover
\* run, each making one call on the located master and ending the run
\* without monitor; every other run starts the monitor, and there a
\* promotion call is made only by the Ctrl-S handler or on leaving the loop
\* with the pending command "failover".
C16_DispatchByConfiguration ==
    /\ [](pc = "dispatch" =>
            /\ calls = [failover |-> 0, switchover |-> 0] /\ producers = 0
            /\ Cardinality({b \in {1, 2, 3} :
                             \/ b = 1 /\ ENABLED DirectFailover
                             \/ b = 2 /\ ENABLED DirectSwitchover
                             \/ b = 3 /\ ENABLED MainLoop}) = 1)
    /\ []((pc = "done" /\ producers = 0) =>
            /\ last.on = master
            /\ \/ /\ flags.failover = "force"
                  /\ calls = [failover |-> 1, switchover |-> 0]
                  /\ last.op = "direct-failover"
               \/ /\ flags.failover # "force"
                  /\ flags.switchover # "" /\ flags.interactive = FALSE
                  /\ calls = [failover |-> 0, switchover |-> 1]
                  /\ last.op = "direct-switchover")
    /\ [](producers >= 1 =>
            /\ flags.failover # "force"
            /\ flags.switchover = "" \/ flags.interactive = TRUE)
    /\ [][(pc # "dispatch" /\ calls' # calls) =>
            \/ KeyCtrlS
            \/ pc = "loop" /\ exit = TRUE /\ command = "failover"]_vars

\* A direct failover made by an interactive run.
C16_Witness ==
    /\ pc = "done" /\ producers = 0
    /\ flags.failover = "force" /\ flags.interactive = TRUE
    /\ calls.failover = 1

\* ------------------------------------------------------------------ C17
MsgTermbox == "Termbox initialization error"

C18_LoopStateRebuilt ==
    /\ [][(AtMainLoop /\ pc' = "loop") => (exit' = FALSE /\ command' = "")]_vars
    /\ [](InLoop => command = "")

\* Back in the loop after a failover restart.
C18_Witness ==
    /\ InLoop
    /\ producers = 2
    /\ calls.failover = 1
    /\ command = ""

\* ------------------------------------------------------------------ C19
\* C19 (as claimed): at every loop iteration the master reference and every
\* entry of slaves are entries of servers, servers has one entry per
\* configured host, and the master is not in slaves.
C19_TopologyMembership ==
    InLoop =>
        /\ master \in Range(servers)
        /\ Range(slaves) \subseteq Range(servers)
        /\ Len(servers) = Len(hostList)
        /\ \A i \in 1..Len(servers) : nodes[servers[i]].url = hostList[i]
        /\ master \notin Range(slaves)

\* ------------------------------------------------------------------ C20
\* C20 (as claimed): while the program runs, an event taken from the input
\* and not yet received is held by the goroutine whose channel the loop
\* receives from, so that it can still be delivered.
C20_NoEventLost ==
    pc \in {"loop", "MainLoop"} => \A p \in blocked : p = producers

====
